---------------------------- MODULE Spec2Model ----------------------------
(***************************************************************************)
(* ged2dot: GEDCOM -> Graphviz/dot.  A model of src/ged2dot.py: the        *)
(* tokenizer (GedcomImport), the resolver (Individual.resolve and          *)
(* Family.resolve through graph_find), the bounded breadth-first search    *)
(* (bfs) and the serializer (DotExport), chained as convert() chains them. *)
(*                                                                         *)
(* Text is a sequence of one-character strings, so that the slices, splits *)
(* and prefix tests of the source are computed character by character.     *)
(* The literals the serializer writes are kept as single chunks.  An       *)
(* object reference is the 1-based position of the object in the graph     *)
(* list (0 is None): two entities with the same identifier stay two        *)
(* objects.                                                                *)
(***************************************************************************)
EXTENDS Integers, Sequences, FiniteSets, TLC

VARIABLES
    imp,        \* the GedcomImport object: individual, family, graph, in_birt, in_deat (+ raised)
    bomImp,     \* a second GedcomImport, fed the same stream behind a UTF-8 byte-order-mark
    pc,         \* position of the run in convert() / load()
    scen,       \* which vocabulary the lines of the stream are drawn from
    stream,     \* history: the lines of the stream consumed so far
    started,    \* history: identifiers of the entities __handle_level0 has created, in order
    noteRec,    \* history: the text of the lines of the NOTE record being read (<<>> outside one)
    node,       \* load(): position of the loop "for node in graph"
    once,       \* history: the graph as load() left it, each entity resolved once
    again,      \* history: the entity resolve() was called on a second time (0: none)
    config,     \* the configuration the run has read: rootfamily, familydepth
    root,       \* convert(): root_family
    visited,    \* bfs(): visited
    queue,      \* bfs(): queue
    ret,        \* bfs(): ret
    calls,      \* history: the number of calls of bfs() on the graph so far
    out,        \* the writes made to the output stream, in order
    opened,     \* whether the output stream has been opened
    err         \* the exception that ended the run ("" while none)

vars == <<imp, bomImp, pc, scen, stream, started, noteRec, node, once, again,
          config, root, visited, queue, ret, calls, out, opened, err>>

---------------------------------------------------------------------------
(* Bounds of the model. *)

\* Longest input, in lines (the pieces of stream.read().split(b"\r\n")).
MaxLines == 4
\* Largest familydepth the configuration is given.
MaxFamilyDepth == 1
\* Most calls of bfs() on one loaded graph.
MaxBfsCalls == 2

---------------------------------------------------------------------------
(* Python's str / bytes operations, as far as the source uses them. *)

\* ASCII whitespace, what bytes.strip() and str.strip() remove.
Whitespace == {" ", "\t", "\n", "\r"}

Digits == {"0", "1", "2", "3", "4", "5", "6", "7", "8", "9"}

\* The three bytes of the UTF-8 byte-order-mark, and the character they decode to.
BomBytes == <<"EF", "BB", "BF">>
FEFF == "FEFF"

\* s[a:] for a >= 0.
SliceFrom(s, a) == IF a >= Len(s) THEN <<>> ELSE SubSeq(s, a + 1, Len(s))

\* s[a:-b] for a >= 0 and b > 0.
Slice(s, a, b) == IF Len(s) - b <= a THEN <<>> ELSE SubSeq(s, a + 1, Len(s) - b)

StartsWith(s, p) == Len(s) >= Len(p) /\ SubSeq(s, 1, Len(p)) = p

EndsWith(s, p) == Len(s) >= Len(p) /\ SubSeq(s, Len(s) - Len(p) + 1, Len(s)) = p

RECURSIVE LStrip(_)
LStrip(s) == IF s # <<>> /\ Head(s) \in Whitespace THEN LStrip(Tail(s)) ELSE s

RECURSIVE RStrip(_)
RStrip(s) ==
    IF s # <<>> /\ s[Len(s)] \in Whitespace THEN RStrip(SubSeq(s, 1, Len(s) - 1)) ELSE s

\* bytes.strip() / str.strip()
Strip(s) == RStrip(LStrip(s))

\* s.split(sep) for a one-character sep: never empty, "" gives [""].
RECURSIVE SplitAcc(_, _, _)
SplitAcc(s, sep, cur) ==
    IF s = <<>> THEN <<cur>>
    ELSE IF Head(s) = sep THEN <<cur>> \o SplitAcc(Tail(s), sep, <<>>)
    ELSE SplitAcc(Tail(s), sep, Append(cur, Head(s)))

Split(s, sep) == SplitAcc(s, sep, <<>>)

\* sep.join(tokens)
RECURSIVE Join(_, _)
Join(tokens, sep) ==
    IF tokens = <<>> THEN <<>>
    ELSE IF Len(tokens) = 1 THEN tokens[1]
    ELSE tokens[1] \o <<sep>> \o Join(Tail(tokens), sep)

\* bytes.decode("utf-8"): an ASCII byte is its character, the three bytes EF BB BF
\* are the one character U+FEFF.  (The model's streams hold no other byte.)
RECURSIVE Decode(_)
Decode(b) ==
    IF b = <<>> THEN <<>>
    ELSE IF StartsWith(b, BomBytes) THEN <<FEFF>> \o Decode(SliceFrom(b, 3))
    ELSE <<Head(b)>> \o Decode(Tail(b))

\* Whether int(tok) succeeds.  Over the model's alphabet (no sign, no underscore,
\* no whitespace inside a token) that is a non-empty run of decimal digits.
IsInt(tok) == tok # <<>> /\ \A i \in 1..Len(tok) : tok[i] \in Digits

DigitValue(c) ==
    CASE c = "0" -> 0 [] c = "1" -> 1 [] c = "2" -> 2 [] c = "3" -> 3 [] c = "4" -> 4
      [] c = "5" -> 5 [] c = "6" -> 6 [] c = "7" -> 7 [] c = "8" -> 8 [] c = "9" -> 9

\* int(tok) for a token IsInt accepts.
RECURSIVE ToInt(_)
ToInt(tok) ==
    IF tok = <<>> THEN 0
    ELSE 10 * ToInt(SubSeq(tok, 1, Len(tok) - 1)) + DigitValue(tok[Len(tok)])

\* str.upper() / str.lower() over the letters a sex value of the model can hold.
UpperChar(c) == CASE c = "m" -> "M" [] c = "f" -> "F" [] c = "u" -> "U" [] c = "x" -> "X" [] OTHER -> c
LowerChar(c) == CASE c = "M" -> "m" [] c = "F" -> "f" [] c = "U" -> "u" [] c = "X" -> "x" [] OTHER -> c
Upper(s) == [i \in 1..Len(s) |-> UpperChar(s[i])]
Lower(s) == [i \in 1..Len(s) |-> LowerChar(s[i])]

---------------------------------------------------------------------------
(* Graph entities. *)

None == [kind |-> "None"]

\* Individual.__init__ (with its IndividualConfig: note, birth, death)
Individual ==
    [kind |-> "INDI", identifier |-> <<>>, famc_id |-> <<>>, famc |-> 0,
     fams_ids |-> <<>>, fams_list |-> <<>>, depth |-> 0,
     forename |-> <<>>, surname |-> <<>>, sex |-> <<>>,
     note |-> <<>>, birth |-> <<>>, death |-> <<>>]

\* Family.__init__
Family ==
    [kind |-> "FAM", identifier |-> <<>>, wife_id |-> <<>>, wife |-> 0,
     husb_id |-> <<>>, husb |-> 0, child_ids |-> <<>>, child_list |-> <<>>, depth |-> 0]

\* GedcomImport.__init__; raised is the exception that ended tokenize_from_stream.
GedcomImport ==
    [individual |-> None, family |-> None, graph |-> <<>>,
     in_birt |-> FALSE, in_deat |-> FALSE, raised |-> ""]

---------------------------------------------------------------------------
(* Gedcom parser. *)

T_INDI == <<"I", "N", "D", "I">>
T_FAM  == <<"F", "A", "M">>
T_SEX  == <<"S", "E", "X">>
T_NAME == <<"N", "A", "M", "E">>
T_FAMC == <<"F", "A", "M", "C">>
T_FAMS == <<"F", "A", "M", "S">>
T_HUSB == <<"H", "U", "S", "B">>
T_WIFE == <<"W", "I", "F", "E">>
T_CHIL == <<"C", "H", "I", "L">>
T_BIRT == <<"B", "I", "R", "T">>
T_DEAT == <<"D", "E", "A", "T">>
T_NOTE == <<"N", "O", "T", "E">>
T_DATE == <<"D", "A", "T", "E">>

\* Mutant of __reset_flags: a level-1 line leaves the flags as they are.
reset_flags_keeps(i) == i

\* GedcomImport.__reset_flags
reset_flags(i) ==
    IF i.in_birt THEN [i EXCEPT !.in_birt = FALSE]
    ELSE IF i.in_deat THEN [i EXCEPT !.in_deat = FALSE]
    ELSE i

\* GedcomImport.__handle_level0
handle_level0(i, line) ==
    LET g1 == IF i.individual # None THEN Append(i.graph, i.individual) ELSE i.graph
        g2 == IF i.family # None THEN Append(g1, i.family) ELSE g1
        j  == [i EXCEPT !.graph = g2, !.individual = None, !.family = None]
    IN  IF StartsWith(line, <<"@">>) /\ EndsWith(line, T_INDI)
        THEN [j EXCEPT !.individual = [Individual EXCEPT !.identifier = Slice(line, 1, 6)]]
        ELSE IF StartsWith(line, <<"@">>) /\ EndsWith(line, T_FAM)
        THEN [j EXCEPT !.family = [Family EXCEPT !.identifier = Slice(line, 1, 5)]]
        ELSE j

\* GedcomImport.__handle_individual_config
handle_individual_config(i, line) ==
    LET line_lead_token == Split(line, " ")[1]
    IN  IF line_lead_token = T_BIRT THEN [i EXCEPT !.in_birt = TRUE]
        ELSE IF line_lead_token = T_DEAT THEN [i EXCEPT !.in_deat = TRUE]
        ELSE IF line_lead_token = T_NOTE /\ i.individual # None
        THEN [i EXCEPT !.individual.note = SliceFrom(line, 5)]
        ELSE i

\* GedcomImport.__handle_level1
handle_level1(i0, line) ==
    LET i == reset_flags(i0)
        line_lead_token == Split(line, " ")[1]
        tokens == Split(line, " ")
        names  == Split(SliceFrom(line, 5), "/")
    IN  IF line_lead_token = T_SEX /\ i.individual # None
        THEN IF Len(tokens) > 1 THEN [i EXCEPT !.individual.sex = tokens[2]] ELSE i
        ELSE IF line_lead_token = T_NAME /\ i.individual # None
        THEN [i EXCEPT !.individual.forename = Strip(names[1]),
                       !.individual.surname =
                           IF Len(names) > 1 THEN Strip(names[2]) ELSE @]
        ELSE IF line_lead_token = T_FAMC /\ i.individual # None
        THEN IF i.individual.famc_id = <<>>
             THEN [i EXCEPT !.individual.famc_id = Slice(line, 6, 1)]
             ELSE i
        ELSE IF line_lead_token = T_FAMS /\ i.individual # None
        THEN [i EXCEPT !.individual.fams_ids = Append(@, Slice(line, 6, 1))]
        ELSE IF line_lead_token = T_HUSB /\ i.family # None
        THEN [i EXCEPT !.family.husb_id = Slice(line, 6, 1)]
        ELSE IF line_lead_token = T_WIFE /\ i.family # None
        THEN [i EXCEPT !.family.wife_id = Slice(line, 6, 1)]
        ELSE IF line_lead_token = T_CHIL /\ i.family # None
        THEN [i EXCEPT !.family.child_ids = Append(@, Slice(line, 6, 1))]
        ELSE handle_individual_config(i, line)

\* tokenize_from_stream, the level == 2 branch
handle_level2(i, rest) ==
    IF StartsWith(rest, T_DATE) /\ i.individual # None
    THEN LET parts == Split(rest, " ")
             year  == parts[Len(parts)]
         IN  IF i.in_birt THEN [i EXCEPT !.individual.birth = year]
             ELSE IF i.in_deat THEN [i EXCEPT !.individual.death = year]
             ELSE i
    ELSE i

\* The first token of a decoded line, with a leading U+FEFF dropped.
first_token(line) ==
    LET t == Split(line, " ")[1]
    IN  IF StartsWith(t, <<FEFF>>) THEN SliceFrom(t, 1) ELSE t

\* " ".join(tokens[1:])
rest_of(line) == Join(Tail(Split(line, " ")), " ")

\* Mutant of the loop of tokenize_from_stream: "else:" in the place of
\* "elif level == 1:", every level but 0 and 2 is handled as level 1.
tokenize_line_else_level1(i, line_bytes) ==
    LET line == Decode(Strip(line_bytes))
    IN  IF i.raised # "" THEN i
        ELSE IF line = <<>> THEN i
        ELSE IF ~IsInt(first_token(line)) THEN [i EXCEPT !.raised = "ValueError"]
        ELSE LET level == ToInt(first_token(line))
                 rest  == rest_of(line)
             IN  IF level = 0 THEN handle_level0(i, rest)
                 ELSE IF level = 2 THEN handle_level2(i, rest)
                 ELSE handle_level1(i, rest)

\* One iteration of the loop of tokenize_from_stream, on one piece of
\* stream.read().split(b"\r\n").  An importer that raised stays as it is:
\* the exception has left the loop.
tokenize_line(i, line_bytes) ==
    LET line == Decode(Strip(line_bytes))
    IN  IF i.raised # "" THEN i
        ELSE IF line = <<>> THEN i
        ELSE IF ~IsInt(first_token(line)) THEN [i EXCEPT !.raised = "ValueError"]
        ELSE LET level == ToInt(first_token(line))
                 rest  == rest_of(line)
             IN  IF level = 0 THEN handle_level0(i, rest)
                 ELSE IF level = 1 THEN handle_level1(i, rest)
                 ELSE IF level = 2 THEN handle_level2(i, rest)
                 ELSE i

---------------------------------------------------------------------------
(* Resolver. *)

\* The positions of the nodes of graph whose identifier is identifier.
Matches(graph, identifier) ==
    {k \in 1..Len(graph) : graph[k].identifier = identifier}

\* Mutant of graph_find: "assert results", which lets several matches pass.
graph_find_raises_unmatched_only(graph, identifier) ==
    identifier # <<>> /\ Matches(graph, identifier) = {}

\* graph_find raises AssertionError: "assert len(results) == 1" fails.
graph_find_raises(graph, identifier) ==
    identifier # <<>> /\ Cardinality(Matches(graph, identifier)) # 1

\* graph_find: None (0) for an empty identifier, else the one matching node.
graph_find(graph, identifier) ==
    IF identifier = <<>> THEN 0
    ELSE CHOOSE k \in Matches(graph, identifier) : TRUE

\* The loop of Individual.resolve / Family.resolve over fams_ids / child_ids:
\* each id is looked up and "assert fams" / "assert child" must hold before the
\* append.  The list built so far stays when an assertion fails.
RECURSIVE resolve_ids(_, _, _)
resolve_ids(graph, ids, list) ==
    IF ids = <<>> THEN [list |-> list, raised |-> ""]
    ELSE IF graph_find_raises(graph, Head(ids)) \/ graph_find(graph, Head(ids)) = 0
    THEN [list |-> list, raised |-> "AssertionError"]
    ELSE resolve_ids(graph, Tail(ids), Append(list, graph_find(graph, Head(ids))))

\* Individual.resolve: [node, raised]
Individual_resolve(self, graph) ==
    IF graph_find_raises(graph, self.famc_id)
    THEN [node |-> self, raised |-> "AssertionError"]
    ELSE LET r == resolve_ids(graph, self.fams_ids, self.fams_list)
         IN  [node |-> [self EXCEPT !.famc = graph_find(graph, self.famc_id),
                                    !.fams_list = r.list],
              raised |-> r.raised]

\* Family.resolve: [node, raised]
Family_resolve(self, graph) ==
    IF graph_find_raises(graph, self.wife_id)
    THEN [node |-> self, raised |-> "AssertionError"]
    ELSE IF graph_find_raises(graph, self.husb_id)
    THEN [node |-> [self EXCEPT !.wife = graph_find(graph, self.wife_id)],
          raised |-> "AssertionError"]
    ELSE LET r == resolve_ids(graph, self.child_ids, self.child_list)
         IN  [node |-> [self EXCEPT !.wife = graph_find(graph, self.wife_id),
                                    !.husb = graph_find(graph, self.husb_id),
                                    !.child_list = r.list],
              raised |-> r.raised]

\* node.resolve(graph), dispatched on the kind of the node
resolve(self, graph) ==
    IF self.kind = "INDI" THEN Individual_resolve(self, graph)
    ELSE Family_resolve(self, graph)

\* Individual.get_neighbours
Individual_get_neighbours(self) ==
    (IF self.famc # 0 THEN <<self.famc>> ELSE <<>>) \o self.fams_list

\* Mutant of Family.get_neighbours: the husband before the wife.
Family_get_neighbours_husb_first(self) ==
    (IF self.husb # 0 THEN <<self.husb>> ELSE <<>>)
        \o (IF self.wife # 0 THEN <<self.wife>> ELSE <<>>)
        \o self.child_list

\* Family.get_neighbours
Family_get_neighbours(self) ==
    (IF self.wife # 0 THEN <<self.wife>> ELSE <<>>)
        \o (IF self.husb # 0 THEN <<self.husb>> ELSE <<>>)
        \o self.child_list

get_neighbours(self) ==
    IF self.kind = "INDI" THEN Individual_get_neighbours(self)
    ELSE Family_get_neighbours(self)

---------------------------------------------------------------------------
(* Traversal. *)

\* Mutant of InList: bfs without its visited test.
InList_never(list, x) == FALSE

\* "neighbour not in visited": membership in a list, by object identity.
InList(list, x) == \E i \in 1..Len(list) : list[i] = x

\* The loop "for neighbour in node.get_neighbours()" of bfs, on the state
\* b = [graph, visited, queue, ret] with n the node being expanded.
RECURSIVE bfs_neighbours(_, _, _)
bfs_neighbours(b, n, neighbours) ==
    IF neighbours = <<>> THEN b
    ELSE LET neighbour == Head(neighbours)
         IN  IF ~InList(b.visited, neighbour)
             THEN bfs_neighbours(
                      [b EXCEPT !.graph[neighbour].depth = b.graph[n].depth + 1,
                                !.visited = Append(@, neighbour),
                                !.queue = Append(@, neighbour)],
                      n, Tail(neighbours))
             ELSE bfs_neighbours(b, n, Tail(neighbours))

\* Mutant of bfs_cutoff: the cutoff one hop short.
bfs_cutoff_short(graph, n, family_depth) == graph[n].depth > family_depth * 2

\* Whether bfs returns at the node it has just taken from the queue.
bfs_cutoff(graph, n, family_depth) == graph[n].depth > family_depth * 2 + 1

\* Mutant of the loop of bfs: queue.pop() in the place of queue.pop(0), the node
\* enqueued last is taken first.
bfs_iteration_pop_last(b) ==
    LET n == b.queue[Len(b.queue)]
        b1 == [b EXCEPT !.queue = SubSeq(@, 1, Len(@) - 1), !.ret = Append(@, n)]
    IN  bfs_neighbours(b1, n, get_neighbours(b.graph[n]))

\* One iteration of "while queue:" that does not return: pop, append to ret,
\* enqueue the neighbours not yet visited.
bfs_iteration(b) ==
    LET n == Head(b.queue)
        b1 == [b EXCEPT !.queue = Tail(@), !.ret = Append(@, n)]
    IN  bfs_neighbours(b1, n, get_neighbours(b.graph[n]))

\* The loop "while queue:" of bfs, to its return: ret.
RECURSIVE bfs_loop(_, _)
bfs_loop(b, family_depth) ==
    IF b.queue = <<>> \/ bfs_cutoff(b.graph, Head(b.queue), family_depth) THEN b.ret
    ELSE bfs_loop(bfs_iteration(b), family_depth)

\* bfs(root, config) from the node r of the graph g: the list it returns.
bfs(g, r, family_depth) ==
    bfs_loop([graph |-> g, visited |-> <<r>>, queue |-> <<r>>, ret |-> <<>>],
             family_depth)

---------------------------------------------------------------------------
(* Dot serializer.  A write is the text handed to stream.write. *)

\* to_bytes: str.encode("utf-8"), the inverse of Decode.
RECURSIVE to_bytes(_)
to_bytes(string) ==
    IF string = <<>> THEN <<>>
    ELSE IF Head(string) = FEFF THEN BomBytes \o to_bytes(Tail(string))
    ELSE <<Head(string)>> \o to_bytes(Tail(string))

\* Individual.get_color raises KeyError: the upper-cased sex is no key of the dict.
get_color_raises(self) ==
    self.sex # <<>> /\ Upper(self.sex) \notin {<<"M">>, <<"F">>, <<"U">>}

\* Individual.get_color
get_color(self) ==
    LET sex == IF self.sex = <<>> THEN <<"U">> ELSE Upper(self.sex)
    IN  CASE sex = <<"M">> -> <<"blue">>
          [] sex = <<"F">> -> <<"pink">>
          [] sex = <<"U">> -> <<"black">>

\* Individual.get_label.  exists is what os.path.exists answers for the picture
\* of this individual; the directories are the chunks <imagedir>/ and <install>/.
get_label(self, name_order, exists) ==
    LET picture == <<"<imagedir>/">> \o self.forename \o <<" ">> \o self.surname
                       \o <<" ">> \o self.birth \o <<".jpg">>
        sex == IF self.sex # <<>> THEN Lower(self.sex) ELSE <<"u">>
        image_path == IF exists THEN picture
                      ELSE <<"<install>/placeholder-">> \o sex \o <<".png">>
    IN  <<"<table border=\"0\" cellborder=\"0\"><tr><td>">>
            \o <<"<img src=\"">> \o image_path \o <<"\"/>">>
            \o <<"</td></tr><tr><td>">>
            \o (IF name_order = "big"
                THEN self.surname \o <<"<br/>">> \o self.forename \o <<"<br/>">>
                ELSE self.forename \o <<"<br/>">> \o self.surname \o <<"<br/>">>)
            \o self.birth \o <<"-">> \o self.death
            \o <<"</td></tr></table>">>

\* DotExport.__store_individual_nodes over the rest of the subgraph: [out, raised]
RECURSIVE store_individual_nodes(_, _, _, _, _)
store_individual_nodes(graph, subgraph, name_order, exists, w) ==
    IF subgraph = <<>> THEN [out |-> w, raised |-> ""]
    ELSE LET n == graph[Head(subgraph)]
             w2 == w \o << to_bytes(n.identifier \o <<" [shape=box, ">>),
                           to_bytes(<<"label = <">> \o get_label(n, name_order, exists)
                                        \o <<">\n">>) >>
         IN  IF n.kind # "INDI"
             THEN store_individual_nodes(graph, Tail(subgraph), name_order, exists, w)
             ELSE IF get_color_raises(n) THEN [out |-> w2, raised |-> "KeyError"]
             ELSE store_individual_nodes(graph, Tail(subgraph), name_order, exists,
                      Append(w2, to_bytes(<<"color = ">> \o get_color(n) \o <<"];\n">>)))

\* DotExport.__store_family_nodes, the loop
RECURSIVE store_family_nodes(_, _)
store_family_nodes(graph, subgraph) ==
    IF subgraph = <<>> THEN <<>>
    ELSE (IF graph[Head(subgraph)].kind = "FAM"
          THEN << to_bytes(graph[Head(subgraph)].identifier
                               \o <<" [shape=point, width=0.1];\n">>) >>
          ELSE <<>>)
         \o store_family_nodes(graph, Tail(subgraph))

\* The text of one edge: from -> to [dir=none];
edge(from, to) == to_bytes(from \o <<" -> ">> \o to \o <<" [dir=none];\n">>)

\* The child edges of one family, in child_list order
RECURSIVE child_edges(_, _, _)
child_edges(graph, family, child_list) ==
    IF child_list = <<>> THEN <<>>
    ELSE << edge(family.identifier, graph[Head(child_list)].identifier) >>
         \o child_edges(graph, family, Tail(child_list))

\* Mutant of family_edges: the husband's edge is not written.
family_edges_no_husb(graph, family) ==
    (IF family.wife # 0
     THEN << edge(graph[family.wife].identifier, family.identifier) >> ELSE <<>>)
    \o child_edges(graph, family, family.child_list)

\* The edges DotExport.__store_edges writes for one family
family_edges(graph, family) ==
    (IF family.wife # 0
     THEN << edge(graph[family.wife].identifier, family.identifier) >> ELSE <<>>)
    \o (IF family.husb # 0
        THEN << edge(graph[family.husb].identifier, family.identifier) >> ELSE <<>>)
    \o child_edges(graph, family, family.child_list)

\* DotExport.__store_edges
RECURSIVE store_edges(_, _)
store_edges(graph, subgraph) ==
    IF subgraph = <<>> THEN <<>>
    ELSE (IF graph[Head(subgraph)].kind = "FAM"
          THEN family_edges(graph, graph[Head(subgraph)]) ELSE <<>>)
         \o store_edges(graph, Tail(subgraph))

\* DotExport.store_to_stream: [out, raised]
store_to_stream(graph, subgraph, name_order, exists) ==
    LET header == << <<"// Generated by <https://github.com/vmiklos/ged2dot>.\n">>,
                     <<"digraph\n">>, <<"{\n">>, <<"splines = ortho;\n">>, <<"\n">> >>
        indi == store_individual_nodes(graph, subgraph, name_order, exists, header)
    IN  IF indi.raised # "" THEN indi
        ELSE [out |-> indi.out \o << <<"\n">> >> \o store_family_nodes(graph, subgraph)
                          \o << <<"\n">> >> \o store_edges(graph, subgraph)
                          \o << <<"}\n">> >>,
              raised |-> ""]

---------------------------------------------------------------------------
(* The inputs of the model. *)

ID_P1 == <<"P", "1">>
ID_P2 == <<"P", "2">>
ID_P3 == <<"P", "3">>
ID_F1 == <<"F", "1">>
ID_F2 == <<"F", "2">>
ID_F9 == <<"F", "9">>
ID_P9 == <<"P", "9">>

\* Lines of a GEDCOM stream, as bytes.
L_FAM_F1 == <<"0", " ", "@", "F", "1", "@", " ", "F", "A", "M">>
L_FAM_F2 == <<"0", " ", "@", "F", "2", "@", " ", "F", "A", "M">>
L_INDI_P1 == <<"0", " ", "@", "P", "1", "@", " ", "I", "N", "D", "I">>
L_INDI_P2 == <<"0", " ", "@", "P", "2", "@", " ", "I", "N", "D", "I">>
L_TRLR == <<"0", " ", "T", "R", "L", "R">>
L_WIFE_P1 == <<"1", " ", "W", "I", "F", "E", " ", "@", "P", "1", "@">>
L_CHIL_P1 == <<"1", " ", "C", "H", "I", "L", " ", "@", "P", "1", "@">>
L_FAMS_F1 == <<"1", " ", "F", "A", "M", "S", " ", "@", "F", "1", "@">>
L_FAMC_F2 == <<"1", " ", "F", "A", "M", "C", " ", "@", "F", "2", "@">>
L_BAD == <<"x", " ", "y">>
L_EMPTY == <<>>
L_SEX_PADDED == <<" ", "1", " ", "S", "E", "X", " ", "M", " ">>
L_LEVEL3 == <<"3", " ", "_", "U", "I", "D", " ", "1">>
L_BOM_HEAD == <<"EF", "BB", "BF", "0", " ", "H", "E", "A", "D">>
L_NOTE == <<"1", " ", "N", "O", "T", "E", " ", "A">>
L_CONT == <<"2", " ", "C", "O", "N", "T", " ", "B">>
L_NAME == <<"1", " ", "N", "A", "M", "E", " ", "A", " ", "/", "B", "/">>
L_BIRT == <<"1", " ", "B", "I", "R", "T">>
L_DEAT == <<"1", " ", "D", "E", "A", "T">>
L_DATE == <<"2", " ", "D", "A", "T", "E", " ", "1", " ", "J", "A", "N", " ", "1", "9", "0", "0">>
L_SEX_X == <<"1", " ", "S", "E", "X", " ", "X">>
L_LEVEL3_SEX == <<"3", " ", "S", "E", "X", " ", "F">>
L_LEVEL12 == <<"1", "2", " ", "B", "I", "R", "T">>
L_FAMC_F1 == <<"1", " ", "F", "A", "M", "C", " ", "@", "F", "1", "@">>
L_FAMC_EMPTY == <<"1", " ", "F", "A", "M", "C", " ", "@", "@">>

\* A stream is made of lines of one of these vocabularies.
Vocabulary ==
    << {L_FAM_F1, L_INDI_P1, L_WIFE_P1, L_CHIL_P1, L_FAMS_F1, L_FAMC_F2, L_TRLR, L_BAD},
       {L_EMPTY, L_SEX_PADDED, L_INDI_P1, L_FAM_F1, L_TRLR, L_LEVEL3, L_BOM_HEAD},
       {L_INDI_P1, L_NOTE, L_CONT, L_NAME, L_BIRT, L_DEAT, L_DATE, L_TRLR},
       {L_INDI_P1, L_SEX_X, L_LEVEL3_SEX, L_LEVEL12, L_BIRT, L_FAMC_F1, L_FAMC_F2,
        L_FAMC_EMPTY} >>

\* tokenize_from_stream on the lines of a whole stream.
RECURSIVE tokenize_lines(_, _)
tokenize_lines(i, lines) ==
    IF lines = <<>> THEN i
    ELSE tokenize_lines(tokenize_line(i, Head(lines)), Tail(lines))

\* A GEDCOM file with the individuals P1, P2, P3 and the families F1, F2, in
\* that order.  m[f][p] is what p is in f: P1 may be wife or child, P2 husband
\* or child, P3 child.  The file lists the children of a family as P3, P2, P1
\* and the families of a spouse as F2, F1.
Families == {"F1", "F2"}
Memberships ==
    [Families -> [P1 : {"none", "wife", "child"}, P2 : {"none", "husb", "child"},
                  P3 : {"none", "child"}]]

\* The file with one defect: a FAMS or WIFE line naming a record the file does
\* not hold, a second record with the identifier P3, a CHIL or FAMS line with
\* an empty id.
Defects ==
    {"none", "dangling_fams", "dangling_wife", "duplicate", "empty_chil", "empty_fams"}

\* The lines "0 @id@ TAG" and "1 TAG @id@".
Level0Line(identifier, tag) == <<"0", " ", "@">> \o identifier \o <<"@", " ">> \o tag
Level1Line(tag, identifier) == <<"1", " ">> \o tag \o <<" ", "@">> \o identifier \o <<"@">>

If(cond, lines) == IF cond THEN lines ELSE <<>>

IndividualRecord(m, p, identifier, spouse) ==
    << Level0Line(identifier, T_INDI) >>
        \o If(m["F1"][p] = "child", << Level1Line(T_FAMC, ID_F1) >>)
        \o If(m["F2"][p] = "child", << Level1Line(T_FAMC, ID_F2) >>)
        \o If(m["F2"][p] = spouse, << Level1Line(T_FAMS, ID_F2) >>)
        \o If(m["F1"][p] = spouse, << Level1Line(T_FAMS, ID_F1) >>)

FamilyRecord(m, f, identifier) ==
    << Level0Line(identifier, T_FAM) >>
        \o If(m[f].P1 = "wife", << Level1Line(T_WIFE, ID_P1) >>)
        \o If(m[f].P2 = "husb", << Level1Line(T_HUSB, ID_P2) >>)
        \o If(m[f].P3 = "child", << Level1Line(T_CHIL, ID_P3) >>)
        \o If(m[f].P2 = "child", << Level1Line(T_CHIL, ID_P2) >>)
        \o If(m[f].P1 = "child", << Level1Line(T_CHIL, ID_P1) >>)

FileOf(m, defect) ==
    IndividualRecord(m, "P1", ID_P1, "wife")
        \o << <<"1", " ">> \o T_SEX \o <<" ", "F">> >>
        \o If(defect = "empty_fams", << Level1Line(T_FAMS, <<>>) >>)
        \o IndividualRecord(m, "P2", ID_P2, "husb")
        \o << <<"1", " ">> \o T_SEX \o <<" ", "M">> >>
        \o IndividualRecord(m, "P3", ID_P3, "spouse")
        \o If(defect = "dangling_fams", << Level1Line(T_FAMS, ID_F9) >>)
        \o FamilyRecord(m, "F1", ID_F1)
        \o If(defect = "empty_chil", << Level1Line(T_CHIL, <<>>) >>)
        \o FamilyRecord(m, "F2", ID_F2)
        \o If(defect = "dangling_wife", << Level1Line(T_WIFE, ID_P9) >>)
        \o If(defect = "duplicate", << Level0Line(ID_P3, T_INDI) >>)
        \o << L_TRLR >>

\* The graph tokenize_from_stream returns for such a file.
TokenizedGraph(m, defect) == tokenize_lines(GedcomImport, FileOf(m, defect)).graph

\* The identifiers convert() is asked to start from.
StreamRoots == {ID_F1, ID_P1}
GraphRoots == {ID_P1, ID_P2, ID_P3, ID_F1, ID_F2, ID_F9}

---------------------------------------------------------------------------
(* The run: convert() = load (tokenize, resolve), graph_find, bfs, store. *)

graph == imp.graph

\* The level of a line of the stream (-1: an empty line, or no number), and what
\* follows the level.
LineLevel(line_bytes) ==
    LET line == Decode(Strip(line_bytes))
    IN  IF line = <<>> \/ ~IsInt(first_token(line)) THEN -1 ELSE ToInt(first_token(line))

LineRest(line_bytes) == rest_of(Decode(Strip(line_bytes)))

\* The identifier of the entity in progress.
InProgress(i) ==
    IF i.individual # None THEN <<i.individual.identifier>>
    ELSE IF i.family # None THEN <<i.family.identifier>>
    ELSE <<>>

InitCommon ==
    /\ bomImp = GedcomImport
    /\ stream = <<>>
    /\ started = <<>>
    /\ noteRec = <<>>
    /\ node = 1
    /\ once = <<>>
    /\ again = 0
    /\ config = [rootfamily |-> <<>>, familydepth |-> 0]
    /\ root = 0
    /\ visited = <<>>
    /\ queue = <<>>
    /\ ret = <<>>
    /\ calls = 0
    /\ out = <<>>
    /\ opened = FALSE
    /\ err = ""

\* Mutant of Init: convert() opens the output before it loads the input.
Init_output_opened ==
    /\ imp = GedcomImport
    /\ pc = "tokenize"
    /\ scen \in 1..Len(Vocabulary)
    /\ bomImp = GedcomImport
    /\ stream = <<>>
    /\ started = <<>>
    /\ noteRec = <<>>
    /\ node = 1
    /\ once = <<>>
    /\ again = 0
    /\ config = [rootfamily |-> <<>>, familydepth |-> 0]
    /\ root = 0
    /\ visited = <<>>
    /\ queue = <<>>
    /\ ret = <<>>
    /\ calls = 0
    /\ out = <<>>
    /\ opened = TRUE
    /\ err = ""

\* convert() is about to read a stream.
Init ==
    /\ imp = GedcomImport
    /\ pc = "tokenize"
    /\ scen \in 1..Len(Vocabulary)
    /\ InitCommon

\* tokenize() has returned the graph of a file; load() is about to resolve it.
InitGraph ==
    /\ \E m \in Memberships, defect \in Defects :
           imp = [GedcomImport EXCEPT !.graph = TokenizedGraph(m, defect)]
    /\ pc = "resolve"
    /\ scen = 0
    /\ InitCommon

\* tokenize_from_stream: one iteration of the loop over the lines.
TokenizeLine ==
    /\ pc = "tokenize"
    /\ Len(stream) < MaxLines
    /\ \E line_bytes \in Vocabulary[scen] :
        /\ imp' = tokenize_line(imp, line_bytes)
        /\ bomImp' = tokenize_line(bomImp,
                         IF stream = <<>> THEN BomBytes \o line_bytes ELSE line_bytes)
        /\ started' = IF LineLevel(line_bytes) = 0 THEN started \o InProgress(imp')
                      ELSE started
        /\ noteRec' =
              IF LineLevel(line_bytes) = 1 /\ imp.individual # None
                     /\ Split(LineRest(line_bytes), " ")[1] = T_NOTE
              THEN << SliceFrom(LineRest(line_bytes), 5) >>
              ELSE IF LineLevel(line_bytes) = 2 /\ noteRec # <<>>
                     /\ Split(LineRest(line_bytes), " ")[1] = <<"C", "O", "N", "T">>
              THEN Append(noteRec, SliceFrom(LineRest(line_bytes), 5))
              ELSE <<>>
        /\ stream' = Append(stream, line_bytes)
    /\ pc' = IF imp'.raised # "" THEN "failed_tokenize" ELSE "tokenize"
    /\ err' = imp'.raised
    /\ UNCHANGED <<scen, node, once, again, config, root, visited, queue, ret, out, opened, calls>>

\* tokenize_from_stream: the stream is exhausted, "return self.graph"; load()
\* starts its loop over the graph.
TokenizeReturn ==
    /\ pc = "tokenize"
    /\ stream # <<>>
    /\ pc' = "resolve"
    /\ node' = 1
    /\ UNCHANGED <<imp, bomImp, scen, stream, started, noteRec, once, again, config, root,
                   visited, queue, ret, out, opened, err, calls>>

\* load(): node.resolve(graph) for the next node of the graph.
LoadResolve ==
    /\ pc = "resolve"
    /\ node <= Len(graph)
    /\ LET r == resolve(graph[node], graph)
       IN  /\ imp' = [imp EXCEPT !.graph[node] = r.node]
           /\ pc' = IF r.raised # "" THEN "failed_resolve" ELSE "resolve"
           /\ err' = r.raised
    /\ node' = node + 1
    /\ UNCHANGED <<bomImp, scen, stream, started, noteRec, once, again, config, root,
                   visited, queue, ret, out, opened, calls>>

\* load(): every node is resolved, "return graph".
LoadReturn ==
    /\ pc = "resolve"
    /\ node > Len(graph)
    /\ pc' = "loaded"
    /\ once' = graph
    /\ UNCHANGED <<imp, bomImp, scen, stream, started, noteRec, node, again, config, root,
                   visited, queue, ret, out, opened, err, calls>>

\* A further call of node.resolve(graph) on one entity of the loaded graph.
\* The model follows the run no further after it.
ResolveAgain ==
    /\ pc = "loaded"
    /\ \E k \in 1..Len(graph) :
        LET r == resolve(graph[k], graph)
        IN  /\ imp' = [imp EXCEPT !.graph[k] = r.node]
            /\ again' = k
            /\ err' = r.raised
    /\ pc' = "resolved_again"
    /\ UNCHANGED <<bomImp, scen, stream, started, noteRec, node, once, config, root,
                   visited, queue, ret, out, opened, calls>>

\* convert(): root_family = graph_find(graph, config["rootfamily"]); assert root_family
FindRoot(identifiers) ==
    /\ pc = "loaded"
    /\ \E identifier \in identifiers :
        /\ config' = [config EXCEPT !.rootfamily = identifier]
        /\ IF graph_find_raises(graph, identifier) \/ graph_find(graph, identifier) = 0
           THEN /\ pc' = "failed_root"
                /\ err' = "AssertionError"
                /\ root' = root
           ELSE /\ pc' = "rooted"
                /\ err' = err
                /\ root' = graph_find(graph, identifier)
    /\ UNCHANGED <<imp, bomImp, scen, stream, started, noteRec, node, once, again,
                   visited, queue, ret, out, opened, calls>>

\* bfs(): visited = [root]; queue = [root]; ret = []
BfsEnter ==
    /\ pc = "rooted"
    /\ \E family_depth \in 0..MaxFamilyDepth :
           config' = [config EXCEPT !.familydepth = family_depth]
    /\ visited' = <<root>>
    /\ queue' = <<root>>
    /\ ret' = <<>>
    /\ calls' = calls + 1
    /\ pc' = "bfs"
    /\ UNCHANGED <<imp, bomImp, scen, stream, started, noteRec, node, once, again, root,
                   out, opened, err>>

\* A further call of bfs() on the same graph, with the same configuration, from
\* any node of the graph as root.
BfsAgain ==
    /\ pc = "traversed"
    /\ calls < MaxBfsCalls
    /\ \E k \in 1..Len(graph) :
        /\ root' = k
        /\ visited' = <<k>>
        /\ queue' = <<k>>
    /\ ret' = <<>>
    /\ calls' = calls + 1
    /\ pc' = "bfs"
    /\ UNCHANGED <<imp, bomImp, scen, stream, started, noteRec, node, once, again, config,
                   out, opened, err>>

\* bfs(): one iteration of "while queue:".
BfsStep ==
    /\ pc = "bfs"
    /\ queue # <<>>
    /\ IF bfs_cutoff(graph, Head(queue), config.familydepth)
       THEN /\ queue' = Tail(queue)
            /\ pc' = "traversed"
            /\ UNCHANGED <<imp, visited, ret, calls>>
       ELSE LET b == bfs_iteration([graph |-> graph, visited |-> visited,
                                    queue |-> queue, ret |-> ret])
            IN  /\ imp' = [imp EXCEPT !.graph = b.graph]
                /\ visited' = b.visited
                /\ queue' = b.queue
                /\ ret' = b.ret
                /\ pc' = "bfs"
    /\ UNCHANGED <<bomImp, scen, stream, started, noteRec, node, once, again, config, root,
                   out, opened, err, calls>>

\* bfs(): the queue is empty, "return ret".
BfsReturn ==
    /\ pc = "bfs"
    /\ queue = <<>>
    /\ pc' = "traversed"
    /\ UNCHANGED <<imp, bomImp, scen, stream, started, noteRec, node, once, again, config,
                   root, visited, queue, ret, out, opened, err, calls>>

\* convert(): exporter.store(subgraph, config) opens the output and writes it.
Store ==
    /\ pc = "traversed"
    /\ opened' = TRUE
    /\ \E exists \in BOOLEAN, name_order \in {"little", "big"} :
        LET r == store_to_stream(graph, ret, name_order, exists)
        IN  /\ out' = r.out
            /\ pc' = IF r.raised # "" THEN "failed_store" ELSE "stored"
            /\ err' = r.raised
    /\ UNCHANGED <<imp, bomImp, scen, stream, started, noteRec, node, once, again, config,
                   root, visited, queue, ret, calls>>

Next ==
    \/ TokenizeLine
    \/ TokenizeReturn
    \/ LoadResolve
    \/ LoadReturn
    \/ FindRoot(StreamRoots)
    \/ BfsEnter
    \/ BfsStep
    \/ BfsReturn
    \/ Store

Spec == Init /\ [][Next]_vars

NextGraph ==
    \/ LoadResolve
    \/ LoadReturn
    \/ ResolveAgain
    \/ FindRoot(GraphRoots)
    \/ BfsEnter
    \/ BfsAgain
    \/ BfsStep
    \/ BfsReturn
    \/ Store

SpecGraph == InitGraph /\ [][NextGraph]_vars

---------------------------------------------------------------------------
(* Properties. *)

NoDuplicates(seq) == \A i, j \in DOMAIN seq : i # j => seq[i] # seq[j]

Identifiers(g, seq) == [i \in DOMAIN seq |-> g[seq[i]].identifier]

\* load() has returned: every entity of the graph was resolved, once.
Loaded ==
    pc \in {"loaded", "rooted", "bfs", "traversed", "stored", "failed_root", "failed_store"}

\* bfs() has returned ret.
BfsReturned == pc \in {"traversed", "stored", "failed_store"}

\* C1: bfs enqueues each node at most once and returns no node twice: visited,
\* queue and ret never hold a node twice, ret never holds an identifier twice,
\* and while the loop runs the nodes enqueued so far (visited) are exactly the
\* nodes returned so far followed by the nodes still queued.
C1_NoRevisit ==
    /\ NoDuplicates(visited)
    /\ NoDuplicates(queue)
    /\ NoDuplicates(ret)
    /\ NoDuplicates(Identifiers(graph, ret))
    /\ pc = "bfs" => visited = ret \o queue

\* C1, witness: bfs has returned a node that is a neighbour of two other nodes
\* returned before it (it was reached along two paths).
C1_ReachedAlongTwoPaths ==
    /\ BfsReturned
    /\ \E i, j, k \in DOMAIN ret :
        /\ i < j /\ j < k
        /\ InList(get_neighbours(graph[ret[i]]), ret[k])
        /\ InList(get_neighbours(graph[ret[j]]), ret[k])

\* The root of the traversal is a family with a resolved wife and a resolved husband.
RootIsCouple ==
    /\ root # 0
    /\ graph[root].kind = "FAM"
    /\ graph[root].wife # 0
    /\ graph[root].husb # 0

\* C2 as claimed: with familydepth 0, bfs from a family with wife and husband
\* returns exactly the family and its two spouses.
C2_ExactlyThreeNodes ==
    (BfsReturned /\ config.familydepth = 0 /\ RootIsCouple)
        => ret = <<root, graph[root].wife, graph[root].husb>>

\* C2, amended: with familydepth 0, bfs on a freshly loaded graph (as convert
\* runs it) from a family with wife and husband returns the family, its wife, its
\* husband and then its children in CHIL order, and nothing else: three nodes
\* exactly when the family has no child, and no family but the root.
C2_FamilySpousesAndChildren ==
    (BfsReturned /\ calls = 1 /\ config.familydepth = 0 /\ RootIsCouple)
        => /\ ret = <<root, graph[root].wife, graph[root].husb>> \o graph[root].child_list
           /\ Len(ret) = 3 <=> graph[root].child_list = <<>>
           /\ \A i \in DOMAIN ret : graph[ret[i]].kind = "FAM" => ret[i] = root

\* C2, witness: such a traversal has returned, the root family has a child and
\* its wife is a child of another family.
C2_CoupleWithChildAndParents ==
    /\ BfsReturned /\ calls = 1 /\ config.familydepth = 0 /\ RootIsCouple
    /\ graph[root].child_list # <<>>
    /\ graph[graph[root].wife].famc \notin {0, root}

\* C3 as claimed: once tokenize_from_stream has returned, the graph holds every
\* entity a level-0 line has started, in order, and none is left in progress.
C3_EveryStartedEntityInGraph ==
    pc \notin {"tokenize", "failed_tokenize"}
        => /\ Identifiers(graph, [k \in 1..Len(graph) |-> k]) = started
           /\ imp.individual = None
           /\ imp.family = None

C5_ResolveIdempotent == pc = "resolved_again" => graph = once

\* The nodes named by the non-empty ids of a list, in the order of the list.
RECURSIVE NodesNamed(_, _)
NodesNamed(g, ids) ==
    IF ids = <<>> THEN <<>>
    ELSE (IF Head(ids) = <<>> THEN <<>>
          ELSE << CHOOSE k \in 1..Len(g) : g[k].identifier = Head(ids) >>)
         \o NodesNamed(g, Tail(ids))

\* C6: after load, the neighbours of a family are the nodes its WIFE line, its
\* HUSB line and its CHIL lines name, in that order, and the neighbours of an
\* individual are the nodes its FAMC line and its FAMS lines name, in that order.
C6_NeighboursAreTheReferences ==
    Loaded =>
        \A k \in 1..Len(graph) :
            get_neighbours(graph[k]) =
                IF graph[k].kind = "FAM"
                THEN NodesNamed(graph, <<graph[k].wife_id, graph[k].husb_id>>
                                           \o graph[k].child_ids)
                ELSE NodesNamed(graph, <<graph[k].famc_id>> \o graph[k].fams_ids)

\* C6, witness: a loaded graph in which F1 has wife P1, husband P2 and child P3,
\* F2 has wife P1 and the children P3, P2, and P2 is a child of F2 and the
\* husband of F1.
C6_FullFamilies ==
    /\ Loaded
    /\ Len(graph) = 5
    /\ get_neighbours(graph[4]) = <<1, 2, 3>>
    /\ get_neighbours(graph[5]) = <<1, 3, 2>>
    /\ get_neighbours(graph[1]) = <<5, 4>>
    /\ get_neighbours(graph[2]) = <<5, 4>>

\* A family with a WIFE line and no HUSB line, or a HUSB line and no WIFE line.
OneSpouseMissing(e) == e.kind = "FAM" /\ ((e.wife_id = <<>>) # (e.husb_id = <<>>))

PresentSpouse(e) == IF e.wife_id = <<>> THEN e.husb ELSE e.wife

\* The writes that are an edge from some node of the graph into e.
EdgesInto(e) ==
    {i \in DOMAIN out : \E k \in 1..Len(graph) :
                            out[i] = edge(graph[k].identifier, e.identifier)}

\* C7 as claimed: a family with one spouse missing has exactly one neighbour, the
\* present spouse, and the output holds exactly one wife/husband edge for it.
C7_OneNeighbourOneEdge ==
    /\ Loaded =>
          \A k \in 1..Len(graph) :
              OneSpouseMissing(graph[k])
                  => get_neighbours(graph[k]) = <<PresentSpouse(graph[k])>>
    /\ pc = "stored" =>
          \A i \in DOMAIN ret :
              OneSpouseMissing(graph[ret[i]])
                  => Cardinality(EdgesInto(graph[ret[i]])) = 1

\* C7, amended: the neighbours of a family with one spouse missing are the
\* present spouse followed by the children of the family (one neighbour when it
\* has no child), and for such a family of the serialized subgraph the output
\* holds exactly one wife/husband edge, the one from the present spouse.
C7_OneSpouseNeighbourOneEdge ==
    /\ Loaded =>
          \A k \in 1..Len(graph) :
              OneSpouseMissing(graph[k])
                  => /\ PresentSpouse(graph[k]) # 0
                     /\ get_neighbours(graph[k]) =
                            <<PresentSpouse(graph[k])>> \o graph[k].child_list
    /\ pc = "stored" =>
          \A i \in DOMAIN ret :
              OneSpouseMissing(graph[ret[i]])
                  => /\ Cardinality(EdgesInto(graph[ret[i]])) = 1
                     /\ \A w \in EdgesInto(graph[ret[i]]) :
                            out[w] = edge(graph[PresentSpouse(graph[ret[i]])].identifier,
                                          graph[ret[i]].identifier)

\* C7, witness: the output is written for a subgraph that holds a family with a
\* husband, no wife and a child.
C7_NoWifeFamilyStored ==
    /\ pc = "stored"
    /\ \E i \in DOMAIN ret :
        /\ OneSpouseMissing(graph[ret[i]])
        /\ graph[ret[i]].wife_id = <<>>
        /\ graph[ret[i]].child_list # <<>>

\* C8 as claimed: the importer fed the stream behind a byte-order-mark is in the
\* state of the importer fed the stream itself: same error or none, same graph.
C8_BomTransparent == bomImp = imp

\* C9: a run that ended in a fatal error of the tokenizer, of the resolver or of
\* the root lookup has not opened the output nor written to it, and the output
\* is opened only after load, root lookup and bfs have all returned.
C9_NoOutputOnFatalError ==
    /\ pc \in {"failed_tokenize", "failed_resolve", "failed_root"}
          => ~opened /\ out = <<>>
    /\ (opened \/ out # <<>>)
          => /\ pc \in {"stored", "failed_store"}
             /\ imp.raised = ""
             /\ node > Len(graph)
             /\ root # 0

\* C9, witness: the root lookup has failed on a loaded, non-empty graph.
C9_RootLookupFailed == pc = "failed_root" /\ graph # <<>> /\ err = "AssertionError"

\* The symbolic ids of an entity.
SymbolicIds(e) ==
    IF e.kind = "FAM" THEN <<e.wife_id, e.husb_id>> \o e.child_ids
    ELSE <<e.famc_id>> \o e.fams_ids

\* A non-empty symbolic id of e matches no identifier of g, or several.
HasUnmatchedId(e, g) ==
    \E i \in DOMAIN SymbolicIds(e) :
        /\ SymbolicIds(e)[i] # <<>>
        /\ Cardinality({k \in 1..Len(g) : g[k].identifier = SymbolicIds(e)[i]}) # 1

\* fams_ids (child_ids) of e holds an empty id.
HasEmptyListEntry(e) ==
    LET ids == IF e.kind = "FAM" THEN e.child_ids ELSE e.fams_ids
    IN  \E i \in DOMAIN ids : ids[i] = <<>>

\* load() called resolve on the entities before position node; the call on k failed.
ResolveFailedOn(k) == pc = "failed_resolve" /\ k = node - 1

\* C10 as claimed: resolve fails on an entity exactly when one of its non-empty
\* symbolic ids matches no identifier of the graph, or several.
C10_FailsIffUnmatchedId ==
    pc \in {"resolve", "failed_resolve"} =>
        \A k \in 1..(node - 1) :
            ResolveFailedOn(k) <=> HasUnmatchedId(graph[k], graph)

\* C10, amended: resolve fails on an entity exactly when one of its non-empty
\* symbolic ids matches no identifier of the graph, or several, or when its
\* fams_ids (child_ids) holds an empty id; an empty famc_id, wife_id or husb_id
\* never makes it fail and leaves the reference None.
C10_FailsIffUnmatchedOrEmptyEntry ==
    pc \in {"resolve", "failed_resolve"} =>
        \A k \in 1..(node - 1) :
            /\ ResolveFailedOn(k)
                   <=> (HasUnmatchedId(graph[k], graph) \/ HasEmptyListEntry(graph[k]))
            /\ (~ResolveFailedOn(k) /\ graph[k].kind = "FAM")
                   => /\ graph[k].wife_id = <<>> => graph[k].wife = 0
                      /\ graph[k].husb_id = <<>> => graph[k].husb = 0
            /\ (~ResolveFailedOn(k) /\ graph[k].kind = "INDI")
                   => (graph[k].famc_id = <<>> => graph[k].famc = 0)

\* C10, witness: resolve has failed on an entity whose only fault is an empty id
\* in its list.
C10_FailedOnEmptyEntry ==
    /\ pc = "failed_resolve"
    /\ HasEmptyListEntry(graph[node - 1])
    /\ ~HasUnmatchedId(graph[node - 1], graph)

\* The position in the stream of its last line of level 0 (0: none).
LastLevel0 ==
    LET S == {k \in 1..Len(stream) : LineLevel(stream[k]) = 0}
    IN  IF S = {} THEN 0 ELSE CHOOSE k \in S : \A j \in S : j <= k

\* The lines read since the last line of level 0: the record of the entity in progress.
Record == SubSeq(stream, LastLevel0 + 1, Len(stream))

\* The tag of a line: the token that follows its level.
Tag(line_bytes) == Split(LineRest(line_bytes), " ")[1]

\* The colour the claim gives a sex value.
ColorOf(sex) ==
    IF sex = <<"M">> THEN <<"blue">> ELSE IF sex = <<"F">> THEN <<"pink">> ELSE <<"black">>

\* C11 as claimed: get_color raises on no individual the parser has stored and
\* returns blue for the sex M, pink for F and black for every other sex, the
\* empty one included; no run ends in a KeyError.
C11_GetColorTotal ==
    /\ \A k \in 1..Len(graph) :
           graph[k].kind = "INDI"
               => /\ ~get_color_raises(graph[k])
                  /\ get_color(graph[k]) = ColorOf(graph[k].sex)
    /\ err # "KeyError"

\* A line whose level is a number other than 0, 1 and 2.
OtherLevel(line_bytes) == LineLevel(line_bytes) \notin {-1, 0, 1, 2}

KeptLevel(line_bytes) == ~OtherLevel(line_bytes)

\* C12: while the stream is read, the parser (graph, entity in progress and its
\* fields, birth and death flags, error) is in the state the same stream without
\* its lines of a level other than 0, 1 and 2 puts it in.
C12_OtherLevelsIgnored ==
    pc \in {"tokenize", "failed_tokenize"}
        => imp = tokenize_lines(GedcomImport, SelectSeq(stream, KeptLevel))

\* C12, witness: a line of another level was read inside the BIRT record of an
\* individual, and a line of level 1 after it.
C12_OtherLevelInsideRecord ==
    /\ pc = "tokenize"
    /\ imp.individual # None
    /\ \E k \in 2..(Len(stream) - 1) :
           /\ stream[k - 1] = L_BIRT
           /\ OtherLevel(stream[k])
           /\ LineLevel(stream[k + 1]) = 1

\* The years the DATE lines of a record give when each counts only inside the
\* BIRT (DEAT) record that encloses it; tag is the tag of the enclosing level-1 line.
RECURSIVE EnclosedYears(_, _, _)
EnclosedYears(lines, tag, years) ==
    IF lines = <<>> THEN years
    ELSE LET l == Head(lines)
             parts == Split(LineRest(l), " ")
             isDate == LineLevel(l) = 2 /\ StartsWith(LineRest(l), T_DATE)
         IN  IF LineLevel(l) = 1 THEN EnclosedYears(Tail(lines), Tag(l), years)
             ELSE IF isDate /\ tag = T_BIRT
             THEN EnclosedYears(Tail(lines), tag, [years EXCEPT !.birth = parts[Len(parts)]])
             ELSE IF isDate /\ tag = T_DEAT
             THEN EnclosedYears(Tail(lines), tag, [years EXCEPT !.death = parts[Len(parts)]])
             ELSE EnclosedYears(Tail(lines), tag, years)

\* C13 as claimed: the birth and death year of the individual in progress are
\* those of the DATE lines of its own record that stand inside a BIRT (DEAT)
\* record of it; a DATE line anywhere else has changed neither.
C13_DateOnlyInsideOwnRecord ==
    (pc = "tokenize" /\ imp.individual # None)
        => LET years == EnclosedYears(Record, <<>>, [birth |-> <<>>, death |-> <<>>])
           IN  /\ imp.individual.birth = years.birth
               /\ imp.individual.death = years.death

IsFamc(line_bytes) == LineLevel(line_bytes) = 1 /\ Tag(line_bytes) = T_FAMC

\* C14 as claimed: the famc_id of the individual in progress is the id of the
\* first FAMC line of its record.
C14_FirstFamcWins ==
    (pc = "tokenize" /\ imp.individual # None /\ SelectSeq(Record, IsFamc) # <<>>)
        => imp.individual.famc_id = Slice(LineRest(SelectSeq(Record, IsFamc)[1]), 6, 1)

\* C19: the birth flag and the death flag are never both set, and after a line
\* of level 1 the birth (death) flag is set exactly when that line is a BIRT
\* (DEAT) line: no flag survives a line of level 1.
C19_OneFlagClearedAtLevel1 ==
    /\ ~(imp.in_birt /\ imp.in_deat)
    /\ (pc = "tokenize" /\ stream # <<>> /\ LineLevel(stream[Len(stream)]) = 1)
           => /\ imp.in_birt <=> Tag(stream[Len(stream)]) = T_BIRT
              /\ imp.in_deat <=> Tag(stream[Len(stream)]) = T_DEAT

\* C19, witness: a DEAT line was read right after a BIRT line; the death flag is
\* set and the birth flag is not.
C19_DeathAfterBirth ==
    /\ pc = "tokenize"
    /\ Len(stream) >= 2
    /\ stream[Len(stream) - 1] = L_BIRT
    /\ stream[Len(stream)] = L_DEAT
    /\ imp.in_deat
    /\ ~imp.in_birt

\* The nodes of g at most d steps of get_neighbours away from r.
RECURSIVE Within(_, _, _)
Within(g, r, d) ==
    IF d = 0 THEN {r}
    ELSE LET W == Within(g, r, d - 1)
         IN  W \cup {n \in 1..Len(g) :
                        \E m \in W : \E i \in DOMAIN get_neighbours(g[m]) :
                            get_neighbours(g[m])[i] = n}

\* The nodes of a list.
Nodes(seq) == {seq[i] : i \in DOMAIN seq}

\* C15 as claimed: the nodes bfs returns are exactly those whose distance from
\* the root over get_neighbours is at most familydepth * 2 + 1.
C15_ExactlyTheNodesWithinCutoff ==
    BfsReturned => Nodes(ret) = Within(graph, root, config.familydepth * 2 + 1)

\* C16: during a call of bfs the nodes taken from the queue so far have depths
\* that never decrease, in the order they were taken, and every node still in
\* the queue has a depth no less than the depth of the node taken last and no
\* less than that of the nodes queued before it.
C16_DequeuedDepthsNeverDecrease ==
    pc = "bfs" =>
        /\ \A i, j \in DOMAIN ret : i < j => graph[ret[i]].depth <= graph[ret[j]].depth
        /\ \A i, j \in DOMAIN queue : i < j => graph[queue[i]].depth <= graph[queue[j]].depth
        /\ \A i \in DOMAIN ret, j \in DOMAIN queue : graph[ret[i]].depth <= graph[queue[j]].depth

\* C16, witness: bfs has taken nodes of three different depths from the queue
\* and nodes of a fourth depth wait in it.
C16_FourDepths ==
    /\ pc = "bfs"
    /\ queue # <<>>
    /\ Cardinality({graph[ret[i]].depth : i \in DOMAIN ret}) >= 3
    /\ graph[queue[1]].depth > graph[ret[Len(ret)]].depth

\* C17 as claimed: in every call of bfs the root has depth 0, and the list a
\* call returns is the list bfs returns from that root on the graph as load()
\* left it.
C17_EveryCallAsOnFreshGraph ==
    /\ pc = "bfs" => graph[root].depth = 0
    /\ BfsReturned => ret = bfs(once, root, config.familydepth)

\* The output declares a node with the identifier of e.
Declared(e) ==
    \E j \in DOMAIN out :
        \/ out[j] = to_bytes(e.identifier \o <<" [shape=box, ">>)
        \/ out[j] = to_bytes(e.identifier \o <<" [shape=point, width=0.1];\n">>)

\* The subgraph holds a node with the identifier of e, and the output declares it.
InSubgraph(e) ==
    /\ \E x \in Nodes(ret) : graph[x].identifier = e.identifier
    /\ Declared(e)

\* C18 as claimed: every edge of the output joins two nodes of the subgraph bfs
\* returned, both declared in the output.
C18_EdgesJoinSubgraphNodes ==
    pc = "stored" =>
        \A i \in DOMAIN out : \A a, b \in 1..Len(graph) :
            out[i] = edge(graph[a].identifier, graph[b].identifier)
                => InSubgraph(graph[a]) /\ InSubgraph(graph[b])

\* C20 as claimed: the entities of a graph load() has returned have pairwise
\* distinct identifiers.
C20_IdentifiersDistinct ==
    Loaded => NoDuplicates(Identifiers(graph, [k \in 1..Len(graph) |-> k]))

=============================================================================
